---- MODULE Spec2Model ----
(***************************************************************************)
(* ANDES power-system simulator: device registry and variable addressing   *)
(* (andes/models/base.py, andes/models/bus.py, andes/variables/devman.py), *)
(* the equation dispatcher (andes/variables/call.py), the network          *)
(* connectivity analysis (andes/models/line.py), the time-domain routine   *)
(* (andes/routines/timedomain.py) and the single-case driver               *)
(* (andes/main.py).                                                        *)
(*                                                                         *)
(* Python lists are modelled as sequences (internal index k of the code is *)
(* position k+1), dictionaries as functions with a finite domain, and the  *)
(* external identifier None as the integer -1.                             *)
(***************************************************************************)
EXTENDS Integers, Sequences, FiniteSets, TLC

\* ------------------------------------------------------------------ bounds
MaxElem == 2      \* elements added to one model
MaxEdit == 1      \* elements a group is given in a dispatcher session
MaxVec == 4       \* entries a validity vector of Call may grow to
MaxBus == 3       \* buses of the networks given to Line.connectivity
MaxLine == 2      \* branches of the networks given to Line.connectivity
MaxSets == 4      \* entries of Bus.island_sets that are recorded
MaxTrials == 3    \* trial steps of one time-domain run that are followed
MaxEvents == 2    \* event times Fault.get_times returns
MaxIdx == 2       \* largest identifier a caller gives to an element
MaxChain == 7     \* buses of the chain networks given to Line.connectivity
MaxRepeat == 4    \* repetitions of one Newton outcome in the outcomes of a run

None == -1
EmptyMap == [x \in {} |-> 0]

\* ------------------------------------------------- model class declarations
\* The device models of the source: Bus, Line, and the two synchronous
\* machine classes Ord2 and Syn2 (Ord2 plus the Flux0 mix-in).
Models == {"Bus", "Line", "Ord2", "Syn2"}

_group == [Bus |-> "Topology", Line |-> "Line",
           Ord2 |-> "Synchronous", Syn2 |-> "Synchronous"]

_states == [Bus |-> <<>>, Line |-> <<>>,
            Ord2 |-> <<"delta", "omega">>,
            Syn2 |-> <<"delta", "omega">>]

_algebs == [Bus |-> <<>>, Line |-> <<>>,
            Ord2 |-> <<"p", "q", "pm", "vf", "Id", "Iq", "vd", "vq">>,
            Syn2 |-> <<"p", "q", "pm", "vf", "Id", "Iq", "vd", "vq",
                       "psid", "psiq">>]

\* calls: the capability flags a model class sets to True
calls == [Bus  |-> {"init0", "pflow"},
          Line |-> {"gcall", "gycall", "init0", "pflow", "series", "flows"},
          Ord2 |-> {"init1", "dyngen", "gcall", "gycall", "fcall", "fxcall",
                    "jac0"},
          Syn2 |-> {"init1", "dyngen", "gcall", "gycall", "fcall", "fxcall",
                    "jac0"}]

Range(s) == {s[i] : i \in DOMAIN s}
VarNames(dev) == Range(_states[dev]) \cup Range(_algebs[dev])

\* ------------------------------------------------------------------- state
VARIABLES
    devices,    \* DevMan.devices: list of registered model names
    group,      \* DevMan.group: group name -> (external idx -> model name)
    n,          \* ModelBase.n of every model
    idx,        \* ModelBase.idx of every model: list of external identifiers
    int,        \* ModelBase.int of every model: external idx -> internal index
    addr,       \* ModelBase.addr of every model
    xy,         \* per model, per state/algebraic variable: its address list
    Bus,        \* Bus.a and Bus.v
    DAE,        \* DAE.n and DAE.m
    outcome,    \* how the last operation ended and what it logged
    pc,         \* position of the run: "load", "setup", "addr", "ready",
                \* with the index of the next device of the setup/addr loops;
                \* or "built" with k = 1 after one Call.setup and k = 2
                \* after several since the population was last edited
    Call,       \* the Call object: ndevice, the validity vector of every
                \* name of all_calls, and the six compiled plans
    connectivity,
                \* the activation of Line.connectivity: its position, the
                \* network it was given, its locals and what it has written
                \* to the Bus object
    dae,        \* the vectors of the DAE object: g and the diagonal of Gy
                \* at the bus addresses, x, y and f
    TDS,        \* the time-domain settings: t0, tf, deltat, deltatmin,
                \* deltatmax, fixt, tstep, maxit
    td,         \* the activation of timedomain.run: its position and locals
    VarOut,     \* the times VarOut.store was called with, in order
    main,       \* the activation of main.run: its position, its keyword
                \* arguments and the routines it has invoked, in order
    newton      \* the Newton loop of one trial step of timedomain.run: its
                \* position, niter, DAE.factorize and what it has done

regVars == <<devices, group, n, idx, int, addr, xy, Bus, DAE, outcome, pc>>
simVars == <<dae, TDS, td, VarOut, main, newton>>
vars == <<regVars, Call, connectivity, simVars>>

\* outcome of a call: the operation, the model it was called on, "return" or
\* the exception raised, and the level of the message logged ("none" if none)
Returned(op, dev) ==
    [op |-> op, dev |-> dev, result |-> "return", log |-> "none"]
Logged(op, dev, level) ==
    [op |-> op, dev |-> dev, result |-> "return", log |-> level]
Raised(op, dev, exc) ==
    [op |-> op, dev |-> dev, result |-> exc, log |-> "none"]

\* --------------------------------------------------------------- DevMan
\* DevMan.register_device
register_device(dev) ==
    /\ devices' = IF dev \in Range(devices) THEN devices
                  ELSE Append(devices, dev)
    /\ group' = IF _group[dev] \in DOMAIN group THEN group
                ELSE (_group[dev] :> EmptyMap) @@ group

\* DevMan.register_element: the identifier it returns (None when the model
\* is not registered) and the group table it leaves
register_element_idx(dev, i) ==
    IF dev \notin Range(devices) THEN None
    ELSE IF i = None THEN Cardinality(DOMAIN group[_group[dev]])
    ELSE i

register_element_group(dev, i) ==
    IF dev \notin Range(devices) THEN group
    ELSE [group EXCEPT ![_group[dev]] =
              (register_element_idx(dev, i) :> dev) @@ @]

\* ------------------------------------------------------------- ModelBase
RemoveAt(s, k) == [j \in 1..(Len(s) - 1) |-> IF j < k THEN s[j] ELSE s[j + 1]]

\* ModelBase.add (index bookkeeping; parameter values are not modelled)
add(dev, i) ==
    LET id == register_element_idx(dev, i) IN
    /\ group' = register_element_group(dev, i)
    /\ int' = [int EXCEPT ![dev] = (id :> n[dev]) @@ @]
    /\ idx' = [idx EXCEPT ![dev] = Append(@, id)]
    /\ n' = [n EXCEPT ![dev] = @ + 1]
    /\ outcome' = Returned("add", dev)
    /\ UNCHANGED <<devices, addr, xy, Bus, DAE>>

\* ModelBase.remove of an element that exists
remove(dev, i) ==
    LET item == int[dev][i] IN
    /\ i # None
    /\ i \in DOMAIN int[dev]
    /\ n' = [n EXCEPT ![dev] = @ - 1]
    /\ idx' = [idx EXCEPT ![dev] = RemoveAt(@, item + 1)]
    /\ int' = [int EXCEPT ![dev] =
                  [x \in (DOMAIN @) \ {i} |->
                      IF @[x] > item THEN @[x] - 1 ELSE @[x]]]
    /\ xy' = [xy EXCEPT ![dev] =
                  [v \in DOMAIN @ |->
                      IF Len(@[v]) > 0 THEN RemoveAt(@[v], item + 1) ELSE @[v]]]
    /\ outcome' = Returned("remove", dev)
    /\ UNCHANGED <<devices, group, addr, Bus, DAE>>

\* ModelBase._alloc: a zero address list of length n for every variable
_alloc(dev) == [v \in VarNames(dev) |-> [k \in 1..n[dev] |-> 0]]

\* Bus.setup that counts the angle block only (DAE.m = n instead of 2n)
setup_AngleOnly(dev) ==
    IF dev = "Bus"
    THEN IF n[dev] = 0
         THEN /\ outcome' = Logged("setup", dev, "ERROR")
              /\ UNCHANGED <<Bus, DAE, xy>>
         ELSE /\ Bus' = [a |-> [k \in 1..n[dev] |-> k - 1],
                         v |-> [k \in 1..n[dev] |-> n[dev] + k - 1]]
              /\ DAE' = [DAE EXCEPT !.m = n[dev]]
              /\ outcome' = Returned("setup", dev)
              /\ UNCHANGED xy
    ELSE /\ xy' = [xy EXCEPT ![dev] = _alloc(dev)]
         /\ outcome' = Returned("setup", dev)
         /\ UNCHANGED <<Bus, DAE>>

\* ModelBase.setup (the part that touches addresses) and Bus.setup
setup(dev) ==
    IF dev = "Bus"
    THEN IF n[dev] = 0
         THEN /\ outcome' = Logged("setup", dev, "ERROR")
              /\ UNCHANGED <<Bus, DAE, xy>>
         ELSE /\ Bus' = [a |-> [k \in 1..n[dev] |-> k - 1],
                         v |-> [k \in 1..n[dev] |-> n[dev] + k - 1]]
              /\ DAE' = [DAE EXCEPT !.m = 2 * n[dev]]
              /\ outcome' = Returned("setup", dev)
              /\ UNCHANGED xy
    ELSE /\ xy' = [xy EXCEPT ![dev] = _alloc(dev)]
         /\ outcome' = Returned("setup", dev)
         /\ UNCHANGED <<Bus, DAE>>

\* The pass with the counter increment left out
RECURSIVE AddrItems_NoInc(_, _, _, _)
AddrItems_NoInc(s, items, k, var) ==
    IF s.err \/ k > Len(items) THEN s
    ELSE IF var + 1 > Len(s.xy[items[k]])
         THEN [s EXCEPT !.err = TRUE]
         ELSE AddrItems_NoInc([s EXCEPT !.xy[items[k]][var + 1] = s.c],
                              items, k + 1, var)

\* One pass of "for item in self._states" or "for item in self._algebs" of
\* ModelBase._addr for element var: items[k..] are still to be assigned.
\* s = [xy, c, err]: the address lists, the running counter (DAE.n or DAE.m)
\* and whether an IndexError was raised.
RECURSIVE AddrItems(_, _, _, _)
AddrItems(s, items, k, var) ==
    IF s.err \/ k > Len(items) THEN s
    ELSE IF var + 1 > Len(s.xy[items[k]])
         THEN [s EXCEPT !.err = TRUE]
         ELSE AddrItems([s EXCEPT !.xy[items[k]][var + 1] = s.c,
                                  !.c = s.c + 1],
                        items, k + 1, var)

\* "for var in range(self.n)" of ModelBase._addr, from element var on.
\* t = [xy, n, m, err].
RECURSIVE AddrElems(_, _, _)
AddrElems(t, dev, var) ==
    IF t.err \/ var >= n[dev] THEN t
    ELSE LET sx == AddrItems([xy |-> t.xy, c |-> t.n, err |-> FALSE],
                             _states[dev], 1, var)
             sy == AddrItems([xy |-> sx.xy, c |-> t.m, err |-> sx.err],
                             _algebs[dev], 1, var)
         IN AddrElems([xy |-> sy.xy, n |-> sx.c, m |-> sy.c, err |-> sy.err],
                      dev, var + 1)

\* _addr without the "already assigned" guard
_addr_NoGuard(dev) ==
    LET t == AddrElems([xy |-> xy[dev], n |-> DAE.n, m |-> DAE.m,
                        err |-> FALSE], dev, 0)
    IN /\ xy' = [xy EXCEPT ![dev] = t.xy]
       /\ DAE' = [n |-> t.n, m |-> t.m]
       /\ addr' = [addr EXCEPT ![dev] = ~t.err]
       /\ outcome' = IF t.err THEN Raised("_addr", dev, "IndexError")
                     ELSE Returned("_addr", dev)

\* ModelBase._addr
_addr(dev) ==
    IF addr[dev]
    THEN /\ outcome' = Logged("_addr", dev, "WARNING")
         /\ UNCHANGED <<xy, DAE, addr>>
    ELSE LET t == AddrElems([xy |-> xy[dev], n |-> DAE.n, m |-> DAE.m,
                             err |-> FALSE], dev, 0)
         IN /\ xy' = [xy EXCEPT ![dev] = t.xy]
            /\ DAE' = [n |-> t.n, m |-> t.m]
            /\ addr' = [addr EXCEPT ![dev] = ~t.err]
            /\ outcome' = IF t.err THEN Raised("_addr", dev, "IndexError")
                          ELSE Returned("_addr", dev)

\* ------------------------------------------------------------------ Call
all_calls == <<"gcall", "gycall", "fcall", "fxcall", "init0", "pflow",
               "windup", "jac0", "init1", "shunt", "series", "flows",
               "connection", "times", "stagen", "dyngen", "gmcall", "fmcall",
               "dcseries", "opf", "obj">>

\* Call.__init__: every validity vector empty, no plan compiled yet
Call__init__ ==
    [ndevice |-> 0,
     vec |-> [item \in Range(all_calls) |-> <<>>],
     newton |-> <<>>, fdpf |-> <<>>, pfload |-> <<>>, pfgen |-> <<>>,
     seriesflow |-> <<>>, int |-> <<>>]

\* build_vec that appends nothing for a device without elements
build_vec_SkipEmpty(vec) ==
    LET have == SelectSeq(devices, LAMBDA d : n[d] # 0)
    IN [item \in Range(all_calls) |->
           vec[item] \o [k \in 1..Len(have) |-> item \in calls[have[k]]]]

\* Call.build_vec: one value per device is appended to every vector
build_vec(vec) ==
    [item \in Range(all_calls) |->
        vec[item] \o [k \in 1..Len(devices) |->
                        IF n[devices[k]] = 0 THEN FALSE
                        ELSE item \in calls[devices[k]]]]

\* an entry of a plan: the operation, the object it is called on, and whether
\* it stands inside the plan's "if system.DAE.factorize:" block
Op(op, dev, cond) == [op |-> op, dev |-> dev, cond |-> cond]

Min(a, b) == IF a < b THEN a ELSE b

\* "for ... in zip(flag vectors, call strings): if <test>: string += call":
\* zip stops at the shortest list, the ndevice call strings or the vectors
Pass(vec, nd, Test(_), op, cond) ==
    LET len == Min(nd, Len(vec["pflow"]))
        sel == SelectSeq([k \in 1..len |-> k], Test)
    IN [j \in 1..Len(sel) |-> Op(op, devices[sel[j]], cond)]

\* Call._compile_newton
_compile_newton(vec, nd) ==
    LET g(k) == vec["pflow"][k] /\ vec["gcall"][k]
        f(k) == vec["pflow"][k] /\ vec["fcall"][k]
        j(k) == vec["pflow"][k] /\ vec["jac0"][k]
        gy(k) == vec["pflow"][k] /\ vec["gycall"][k]
    IN <<Op("init_fg", "DAE", FALSE)>>
       \o Pass(vec, nd, g, "gcall", FALSE)
       \o Pass(vec, nd, f, "fcall", FALSE)
       \o <<Op("gisland", "Bus", FALSE)>>
       \o <<Op("init_jac0", "DAE", TRUE)>>
       \o Pass(vec, nd, j, "jac0", TRUE)
       \o <<Op("setup_Gy", "DAE", FALSE)>>
       \o Pass(vec, nd, gy, "gycall", FALSE)
       \o <<Op("gyisland", "Bus", FALSE)>>

\* Call._compile_fdpf
_compile_fdpf(vec, nd) ==
    LET g(k) == vec["pflow"][k] /\ vec["gcall"][k]
    IN <<Op("init_g", "DAE", FALSE)>> \o Pass(vec, nd, g, "gcall", FALSE)

\* Call._compile_pfload
_compile_pfload(vec, nd) ==
    LET g(k) == /\ vec["gcall"][k] /\ vec["pflow"][k]
                /\ vec["shunt"][k] /\ ~vec["stagen"][k]
    IN <<Op("init_g", "DAE", FALSE)>> \o Pass(vec, nd, g, "gcall", FALSE)

\* Call._compile_pfgen
_compile_pfgen(vec, nd) ==
    LET g(k) == /\ vec["gcall"][k] /\ vec["pflow"][k]
                /\ (vec["shunt"][k] \/ vec["series"][k]) /\ ~vec["stagen"][k]
    IN <<Op("init_g", "DAE", FALSE)>> \o Pass(vec, nd, g, "gcall", FALSE)

\* Call._compile_seriesflow (zips the device list itself with the vectors)
_compile_seriesflow(vec) ==
    LET s(k) == vec["pflow"][k] /\ vec["series"][k]
    IN Pass(vec, Len(devices), s, "seriesflow", FALSE)

\* the time-domain plan with the g neutralization after the fcall pass
_compile_int_FcallFirst(vec, nd) ==
    LET g(k) == vec["gcall"][k]
        f(k) == vec["fcall"][k]
        j(k) == vec["jac0"][k]
        gy(k) == vec["gycall"][k]
        fx(k) == vec["fxcall"][k]
    IN <<Op("init_fg", "DAE", FALSE)>>
       \o Pass(vec, nd, g, "gcall", FALSE)
       \o Pass(vec, nd, f, "fcall", FALSE)
       \o <<Op("gisland", "Bus", FALSE)>>
       \o <<Op("init_jac0", "DAE", TRUE)>>
       \o Pass(vec, nd, j, "jac0", TRUE)
       \o <<Op("setup_FxGy", "DAE", FALSE)>>
       \o Pass(vec, nd, gy, "gycall", FALSE)
       \o Pass(vec, nd, fx, "fxcall", FALSE)
       \o <<Op("gyisland", "Bus", FALSE)>>

\* Call._compile_int
_compile_int(vec, nd) ==
    LET g(k) == vec["gcall"][k]
        f(k) == vec["fcall"][k]
        j(k) == vec["jac0"][k]
        gy(k) == vec["gycall"][k]
        fx(k) == vec["fxcall"][k]
    IN <<Op("init_fg", "DAE", FALSE)>>
       \o Pass(vec, nd, g, "gcall", FALSE)
       \o <<Op("gisland", "Bus", FALSE)>>
       \o Pass(vec, nd, f, "fcall", FALSE)
       \o <<Op("init_jac0", "DAE", TRUE)>>
       \o Pass(vec, nd, j, "jac0", TRUE)
       \o <<Op("setup_FxGy", "DAE", FALSE)>>
       \o Pass(vec, nd, gy, "gycall", FALSE)
       \o Pass(vec, nd, fx, "fxcall", FALSE)
       \o <<Op("gyisland", "Bus", FALSE)>>

\* exec(plan) with system.DAE.factorize = factorize: the operations invoked
Exec(plan, factorize) ==
    LET runs(o) == o.cond => factorize IN SelectSeq(plan, runs)

\* Call.setup
Call_setup ==
    LET nd == Len(devices)
        vec == build_vec(Call.vec)
    IN Call' = [ndevice |-> nd,
                vec |-> vec,
                newton |-> _compile_newton(vec, nd),
                fdpf |-> _compile_fdpf(vec, nd),
                pfload |-> _compile_pfload(vec, nd),
                pfgen |-> _compile_pfgen(vec, nd),
                seriesflow |-> _compile_seriesflow(vec),
                int |-> _compile_int(vec, nd)]

\* ------------------------------------------------------------ the run
NotCalled == [at |-> "none"]

\* Case loading registers models and adds or removes their elements; the
\* system set-up then sets up every registered model and assigns addresses
\* model by model, in device-list order.
Loading == pc.at = "load"

RegisterDevice(dev) ==
    /\ Loading
    /\ dev \notin Range(devices)
    /\ register_device(dev)
    /\ outcome' = Returned("register_device", dev)
    /\ UNCHANGED <<n, idx, int, addr, xy, Bus, DAE, pc, Call, connectivity, simVars>>

Add(dev, i) ==
    /\ Loading
    /\ dev \in Range(devices)
    /\ n[dev] < MaxElem
    /\ add(dev, i)
    /\ UNCHANGED <<pc, Call, connectivity, simVars>>

EndLoad ==
    /\ Loading
    /\ pc' = [at |-> "setup", k |-> 1]
    /\ UNCHANGED <<devices, group, n, idx, int, addr, xy, Bus, DAE, outcome,
                   Call, connectivity, simVars>>

Setup ==
    /\ pc.at = "setup"
    /\ IF pc.k > Len(devices)
       THEN /\ pc' = [at |-> "addr", k |-> 1]
            /\ UNCHANGED <<xy, Bus, DAE, outcome>>
       ELSE /\ setup(devices[pc.k])
            /\ pc' = [pc EXCEPT !.k = @ + 1]
    /\ UNCHANGED <<devices, group, n, idx, int, addr, Call, connectivity, simVars>>

Addr ==
    /\ pc.at = "addr"
    /\ IF pc.k > Len(devices)
       THEN /\ pc' = [at |-> "ready", k |-> 1]
            /\ UNCHANGED <<xy, DAE, addr, outcome>>
       ELSE /\ _addr(devices[pc.k])
            /\ pc' = [pc EXCEPT !.k = @ + 1]
    /\ UNCHANGED <<devices, group, n, idx, int, Bus, Call, connectivity, simVars>>

InitSystem ==
    /\ devices = <<>>
    /\ group = EmptyMap
    /\ n = [d \in Models |-> 0]
    /\ idx = [d \in Models |-> <<>>]
    /\ int = [d \in Models |-> EmptyMap]
    /\ addr = [d \in Models |-> FALSE]
    /\ xy = [d \in Models |-> [v \in VarNames(d) |-> <<>>]]
    /\ Bus = [a |-> <<>>, v |-> <<>>]
    /\ DAE = [n |-> 0, m |-> 0]
    /\ outcome = Returned("init", "")
    /\ pc = [at |-> "load", k |-> 1]
    /\ Call = Call__init__

\* no routine has been started
InitSim ==
    /\ dae = NotCalled
    /\ TDS = NotCalled
    /\ td = NotCalled
    /\ VarOut = <<>>
    /\ main = NotCalled
    /\ newton = NotCalled

Init ==
    /\ InitSystem
    /\ connectivity = NotCalled
    /\ InitSim

Next ==
    \/ \E dev \in Models : RegisterDevice(dev)
    \/ \E dev \in Models : Add(dev, None)
    \/ EndLoad
    \/ Setup
    \/ Addr

Spec == Init /\ [][Next]_vars

\* Calls made on the system after its set-up has finished: a further
\* element is added to a model, or _addr is invoked again.
LateAdd(dev) ==
    /\ pc.at = "ready"
    /\ dev \in Range(devices)
    /\ n[dev] < MaxElem
    /\ add(dev, None)
    /\ UNCHANGED <<pc, Call, connectivity, simVars>>

AddrAgain(dev) ==
    /\ pc.at = "ready"
    /\ dev \in Range(devices)
    /\ _addr(dev)
    /\ UNCHANGED <<devices, group, n, idx, int, Bus, pc, Call, connectivity, simVars>>

NextApi ==
    \/ Next
    \/ \E dev \in Models : LateAdd(dev)
    \/ \E dev \in Models : AddrAgain(dev)

SpecApi == Init /\ [][NextApi]_vars

\* The case file is loaded with identifiers given by the caller or left to
\* DevMan, and elements are removed again, all before set-up and addressing.
LoadModels == {"Ord2", "Syn2"}

AddAs(dev, i) ==
    /\ Loading
    /\ dev \in Range(devices)
    /\ n[dev] < MaxElem
    /\ add(dev, i)
    /\ UNCHANGED <<pc, Call, connectivity, simVars>>

Remove(dev, i) ==
    /\ Loading
    /\ dev \in Range(devices)
    /\ remove(dev, i)
    /\ UNCHANGED <<pc, Call, connectivity, simVars>>

NextLoad ==
    \/ \E dev \in LoadModels : RegisterDevice(dev)
    \/ \E dev \in LoadModels, i \in {None} \cup (0..MaxIdx) : AddAs(dev, i)
    \/ \E dev \in LoadModels, i \in 0..MaxIdx : Remove(dev, i)

SpecLoad == Init /\ [][NextLoad]_vars

\* DevMan.sort_device on any list register_device can have built.  Names
\* are compared as Python compares strings; SortNames lists the names in
\* ascending order.  Node and Ground are models outside this source: the
\* group of such a model is not read here and is named after the model.
SortNames == <<"Area", "Bus", "Ground", "Line", "Node">>

GroupOf(dev) == IF dev \in Models THEN _group[dev] ELSE dev

\* list.sort() of a list without duplicates
sort(devs) == SelectSeq(SortNames, LAMBDA d : d \in Range(devs))

\* list.index(name), counted from 0
index(devs, name) == (CHOOSE k \in DOMAIN devs : devs[k] = name) - 1

\* lines 39-42 (43-46, 47-50): "if name in devices: k = index(name);
\* devices[k] = devices[p]; devices[p] = name".  Reading devices[p] raises
\* IndexError when the list has no position p.
Place(r, name, p) ==
    IF r.result # "return" \/ name \notin Range(r.devices) THEN r
    ELSE IF p >= Len(r.devices) THEN [r EXCEPT !.result = "IndexError"]
    ELSE LET d == r.devices
             k == index(d, name)
             moved == [d EXCEPT ![k + 1] = d[p + 1]]
         IN  [r EXCEPT !.devices = [moved EXCEPT ![p + 1] = name]]

\* DevMan.sort_device, devman.py:36-50: the list it leaves and how it ends
sort_device(devs) ==
    Place(Place(Place([devices |-> sort(devs), result |-> "return"],
                      "Bus", 0), "Node", 1), "Ground", 2)

sort_register(dev) ==
    /\ Loading
    /\ dev \notin Range(devices)
    /\ devices' = Append(devices, dev)
    /\ group' = IF GroupOf(dev) \in DOMAIN group THEN group
                ELSE (GroupOf(dev) :> EmptyMap) @@ group
    /\ outcome' = Returned("register_device", dev)
    /\ UNCHANGED <<n, idx, int, addr, xy, Bus, DAE, pc, Call, connectivity, simVars>>

DevMan_sort_device ==
    /\ Loading
    /\ LET r == sort_device(devices)
       IN  /\ devices' = r.devices
           /\ outcome' = IF r.result = "return"
                         THEN Returned("sort_device", "DevMan")
                         ELSE Raised("sort_device", "DevMan", r.result)
    /\ pc' = [at |-> "sorted", k |-> 1]
    /\ UNCHANGED <<group, n, idx, int, addr, xy, Bus, DAE, Call, connectivity, simVars>>

NextSort ==
    \/ \E dev \in Range(SortNames) : sort_register(dev)
    \/ DevMan_sort_device

SpecSort == Init /\ [][NextSort]_vars

\* A session on one system object in which the model population is edited
\* and Call.setup is run, any number of times in any order.
Edited == [at |-> "load", k |-> 1]
CallModels == {"Bus", "Line", "Syn2"}

EditRegister(dev) ==
    /\ pc.at \in {"load", "built"}
    /\ dev \notin Range(devices)
    /\ register_device(dev)
    /\ outcome' = Returned("register_device", dev)
    /\ pc' = Edited
    /\ UNCHANGED <<n, idx, int, addr, xy, Bus, DAE, Call, connectivity, simVars>>

EditAdd(dev) ==
    /\ pc.at \in {"load", "built"}
    /\ dev \in Range(devices)
    /\ Cardinality(DOMAIN group[_group[dev]]) < MaxEdit
    /\ add(dev, None)
    /\ pc' = Edited
    /\ UNCHANGED <<Call, connectivity, simVars>>

EditRemove(dev, i) ==
    /\ pc.at \in {"load", "built"}
    /\ remove(dev, i)
    /\ pc' = Edited
    /\ UNCHANGED <<Call, connectivity, simVars>>

CallSetup ==
    /\ pc.at \in {"load", "built"}
    /\ Len(Call.vec["pflow"]) + Len(devices) <= MaxVec
    /\ Call_setup
    /\ outcome' = Returned("setup", "Call")
    /\ pc' = [at |-> "built", k |-> IF pc.at = "built" THEN 2 ELSE 1]
    /\ UNCHANGED <<devices, group, n, idx, int, addr, xy, Bus, DAE,
                   connectivity, simVars>>

NextCall ==
    \/ \E dev \in CallModels : EditRegister(dev)
    \/ \E dev \in CallModels : EditAdd(dev)
    \/ \E dev \in CallModels, i \in 0..MaxEdit : EditRemove(dev, i)
    \/ CallSetup

SpecCall == Init /\ [][NextCall]_vars

\* ------------------------------------------------------ Line.connectivity
\* Line.connectivity(bus) works on nb buses with addresses 0..nb-1 and on
\* the addresses a1, a2 of the two ends of every branch.  A network also
\* has the status u of every branch (1: in service) and the address refbus
\* of the reference bus (system.refbus).  An index k of a
\* Python list is position k + 1 of the sequence; a sparse matrix is the
\* set of the positions of its entries (all entries are sums of 1.0, so
\* none cancels).
Ends(nb) == {e \in (0..(nb - 1)) \X (0..(nb - 1)) : e[1] # e[2]}

Networks(b) ==
    UNION {{[nb |-> b, a1 |-> [k \in DOMAIN l |-> l[k][1]],
                       a2 |-> [k \in DOMAIN l |-> l[k][2]],
                       u |-> w, refbus |-> r] :
               l \in [1..m -> Ends(b)],
               w \in [1..m -> {0, 1}],
               r \in 0..(b - 1)} :
           m \in 0..MaxLine}

\* diag: per bus, the number of branch ends at it
diag(nb, a1, a2) ==
    [b \in 0..(nb - 1) |->
        Cardinality({k \in DOMAIN a1 : a1[k] = b})
      + Cardinality({k \in DOMAIN a2 : a2[k] = b})]

\* temp: row b holds the columns of the entries of the adjacency matrix
\* built from (fr, to), (to, fr), (fr, fr) and (to, to)
temp(nb, a1, a2) ==
    [b \in 0..(nb - 1) |->
        {c \in 0..(nb - 1) :
            \E k \in DOMAIN a1 :
                \/ a1[k] = b /\ a2[k] = c
                \/ a2[k] = b /\ a1[k] = c
                \/ a1[k] = b /\ c = b
                \/ a2[k] = b /\ c = b}]

\* cons * temp for a row vector cons
Times(cons, t) == UNION {t[i] : i \in cons}

\* .J of a row vector: the columns of its entries, ascending
RECURSIVE J(_)
J(S) ==
    IF S = {} THEN <<>>
    ELSE LET m == CHOOSE x \in S : \A y \in S : x <= y
         IN  <<m>> \o J(S \ {m})

\* the for loop over conn.J[idx:], which advances idx and enum; err is set
\* when diag is indexed outside 0..nb-1
RECURSIVE ForElements(_, _, _, _)
ForElements(elems, d, i, e) ==
    IF elems = <<>> THEN [idx |-> i, enum |-> e, err |-> FALSE]
    ELSE IF i \notin DOMAIN d THEN [idx |-> i, enum |-> e, err |-> TRUE]
    ELSE LET e1 == IF d[i] = 0 THEN e + 1 ELSE e
         IN  IF Head(elems) <= e1
             THEN ForElements(Tail(elems), d, i + 1, e1 + 1)
             ELSE [idx |-> i, enum |-> e1, err |-> FALSE]

\* the call is made with a network; nothing has run yet
Called(net) ==
    [at |-> "call", nb |-> net.nb, a1 |-> net.a1, a2 |-> net.a2,
     u |-> net.u, refbus |-> net.refbus,
     cons |-> {}, nelm |-> 0, conn |-> {}, idx |-> 0,
     enum |-> 0, n_islanded_buses |-> 0, islanded_buses |-> <<>>,
     island_sets |-> <<>>]

\* lines 177-198: the islanded buses, then the start of the search at bus 0
connectivity_begin ==
    /\ connectivity.at = "call"
    /\ LET c == connectivity
           d == diag(c.nb, c.a1, c.a2)
           t == temp(c.nb, c.a1, c.a2)
       IN  connectivity' =
               [c EXCEPT !.at = "inner",
                         !.n_islanded_buses =
                             Cardinality({b \in DOMAIN d : d[b] = 0}),
                         !.islanded_buses = J({b \in DOMAIN d : d[b] = 0}),
                         !.cons = t[0],
                         !.nelm = Cardinality(t[0])]
    /\ UNCHANGED <<regVars, Call, simVars>>

\* lines 200-205: one pass of the inner loop
connectivity_inner ==
    /\ connectivity.at = "inner"
    /\ LET c == connectivity
           cons == Times(c.cons, temp(c.nb, c.a1, c.a2))
           new_nelm == Cardinality(cons)
       IN  connectivity' =
               IF new_nelm = c.nelm
               THEN [c EXCEPT !.cons = cons, !.at = "outer"]
               ELSE [c EXCEPT !.cons = cons, !.nelm = new_nelm]
    /\ UNCHANGED <<regVars, Call, simVars>>

\* lines 206-225: the rest of one pass of the outer loop.  island_sets is
\* appended to and never read by the loop; its entries beyond MaxSets are
\* not recorded.  The local counter islands is written and never read; it
\* is left out.
connectivity_outer ==
    /\ connectivity.at = "outer"
    /\ LET c == connectivity
           d == diag(c.nb, c.a1, c.a2)
           t == temp(c.nb, c.a1, c.a2)
           sets == IF Len(c.island_sets) < MaxSets
                   THEN Append(c.island_sets, J(c.cons))
                   ELSE c.island_sets
           conn == c.conn \cup c.cons
           f == ForElements(SubSeq(J(conn), c.idx + 1, Cardinality(conn)),
                            d, c.idx, c.enum)
       IN  connectivity' =
               IF Cardinality(c.cons) = c.nb
               THEN [c EXCEPT !.at = "return"]
               ELSE IF Cardinality(conn) >= c.nb - c.n_islanded_buses
               THEN [c EXCEPT !.at = "return", !.conn = conn,
                              !.island_sets =
                                  SelectSeq(sets, LAMBDA i : i # <<>>)]
               ELSE IF f.err \/ f.enum \notin DOMAIN t
               THEN [c EXCEPT !.at = "IndexError", !.conn = conn,
                              !.island_sets = sets,
                              !.idx = f.idx, !.enum = f.enum]
               ELSE [c EXCEPT !.at = "inner", !.conn = conn,
                              !.island_sets = sets,
                              !.idx = f.idx, !.enum = f.enum,
                              !.cons = t[f.enum]]
    /\ UNCHANGED <<regVars, Call, simVars>>

\* Bus.gisland(dae), bus.py:82-99: g is zeroed at the angle and voltage
\* addresses of the islanded buses; the loop over island_sets computes the
\* addresses of every island without the reference bus and assigns nothing
gisland(bus_n, islanded_buses, g) ==
    IF islanded_buses = <<>> THEN g
    ELSE LET a == Range(islanded_buses)
             v == {bus_n + item : item \in a}
         IN  [k \in DOMAIN g |-> IF k \in a \cup v THEN 0 ELSE g[k]]

\* Entries of Gy are counted in units of 1e-6: the stabilizer of gyisland
\* is 1, an entry 1.0 that a model contributes is Jac.
Stabilizer == 1
Jac == 1000 * 1000

\* set_jac that adds the value to what the entry holds (as add_jac does)
set_jac_Accumulate(Gy, val, rows) ==
    [k \in DOMAIN Gy |-> IF k \in rows THEN Gy[k] + val ELSE Gy[k]]

\* set_jac('Gy', val, rows, rows), base.py:499-516, for distinct rows: the
\* old value of each entry is read and subtracted, then val is added
set_jac(Gy, val, rows) ==
    LET oldval == [k \in rows |-> Gy[k]]
    IN  [k \in DOMAIN Gy |-> IF k \in rows THEN (Gy[k] - oldval[k]) + val
                             ELSE Gy[k]]

\* Bus.gyisland(dae), bus.py:101-107
gyisland(bus_n, islanded_buses, Gy) ==
    IF islanded_buses # <<>>
    THEN LET a == Range(islanded_buses)
             v == {bus_n + item : item \in a}
         IN  set_jac(set_jac(Gy, Stabilizer, a), Stabilizer, v)
    ELSE Gy

\* the two neutralization steps of a plan, run once the islands are known
Bus_gisland ==
    /\ connectivity.at = "return"
    /\ dae' = [dae EXCEPT !.g = gisland(connectivity.nb,
                                        connectivity.islanded_buses, @)]
    /\ connectivity' = [connectivity EXCEPT !.at = "gisland"]
    /\ UNCHANGED <<regVars, Call, TDS, td, VarOut, main, newton>>

Bus_gyisland ==
    /\ connectivity.at = "gisland"
    /\ dae' = [dae EXCEPT !.Gy = gyisland(connectivity.nb,
                                          connectivity.islanded_buses, @)]
    /\ connectivity' = [connectivity EXCEPT !.at = "gyisland"]
    /\ UNCHANGED <<regVars, Call, TDS, td, VarOut, main, newton>>

\* before the neutralization every entry of g may hold a residual (1) and
\* every diagonal entry of Gy what the models put there (Jac)
InitConn ==
    /\ InitSystem
    /\ \E net \in UNION {Networks(b) : b \in 1..MaxBus} :
          /\ connectivity = Called(net)
          /\ dae = [g |-> [k \in 0..(2 * net.nb - 1) |-> 1],
                    Gy |-> [k \in 0..(2 * net.nb - 1) |-> Jac]]
    /\ TDS = NotCalled /\ td = NotCalled /\ VarOut = <<>> /\ main = NotCalled
    /\ newton = NotCalled

NextConn ==
    \/ connectivity_begin
    \/ connectivity_inner
    \/ connectivity_outer
    \/ Bus_gisland
    \/ Bus_gyisland

\* Networks of up to MaxChain buses whose branches, all in service, join
\* buses of consecutive addresses: every subset of the pairs (b, b + 1),
\* in ascending order.  Their components are runs of consecutive buses.
RECURSIVE Chain(_, _)
Chain(links, b) ==
    IF b < 0 THEN <<>>
    ELSE IF b \in links THEN Append(Chain(links, b - 1), b)
    ELSE Chain(links, b - 1)

ChainNetworks(nb) ==
    {LET fr == Chain(links, nb - 2)
     IN  [nb |-> nb, a1 |-> fr, a2 |-> [k \in DOMAIN fr |-> fr[k] + 1],
          u |-> [k \in DOMAIN fr |-> 1], refbus |-> 0] :
        links \in SUBSET (0..(nb - 2))}

InitChain ==
    /\ InitSystem
    /\ \E net \in UNION {ChainNetworks(b) : b \in 1..MaxChain} :
          /\ connectivity = Called(net)
          /\ dae = [g |-> [k \in 0..(2 * net.nb - 1) |-> 1],
                    Gy |-> [k \in 0..(2 * net.nb - 1) |-> Jac]]
    /\ TDS = NotCalled /\ td = NotCalled /\ VarOut = <<>> /\ main = NotCalled
    /\ newton = NotCalled

SpecChain == InitChain /\ [][NextConn]_vars /\ WF_vars(NextConn)

\* a call that has started runs on until it returns or raises
SpecConn == InitConn /\ [][NextConn]_vars /\ WF_vars(NextConn)

\* -------------------------------------------------- execution of a plan
\* exec(system.Call.newton) and exec(system.Call.int) on a system whose plans
\* were compiled by Call.setup and whose islands were found by
\* Line.connectivity.  The DAE object holds g and the diagonals of Gy and
\* Gy0 at the 2 * nb bus addresses, and the factorize flag.  Of the DAE
\* methods, init_fg clears g, init_jac0 clears Gy0 and setup_Gy and
\* setup_FxGy copy Gy0 to Gy; a gcall adds a residual to g, a jac0 call adds
\* to Gy0 and a gycall adds to Gy; fcall and fxcall touch neither g nor Gy.
\* The number of buses of Bus is the nb of Line.
PlanModels == {"Line", "Syn2"}
PlanNames == {"newton", "int"}

apply(o, d, bus_n, islanded_buses) ==
    IF o.op = "init_fg" THEN [d EXCEPT !.g = [k \in DOMAIN d.g |-> 0]]
    ELSE IF o.op = "gcall"
    THEN [d EXCEPT !.g = [k \in DOMAIN d.g |-> d.g[k] + 1]]
    ELSE IF o.op = "gisland"
    THEN [d EXCEPT !.g = gisland(bus_n, islanded_buses, d.g)]
    ELSE IF o.op = "init_jac0"
    THEN [d EXCEPT !.Gy0 = [k \in DOMAIN d.Gy0 |-> 0]]
    ELSE IF o.op = "jac0"
    THEN [d EXCEPT !.Gy0 = [k \in DOMAIN d.Gy0 |-> d.Gy0[k] + Jac]]
    ELSE IF o.op \in {"setup_Gy", "setup_FxGy"} THEN [d EXCEPT !.Gy = d.Gy0]
    ELSE IF o.op = "gycall"
    THEN [d EXCEPT !.Gy = [k \in DOMAIN d.Gy |-> d.Gy[k] + Jac]]
    ELSE IF o.op = "gyisland"
    THEN [d EXCEPT !.Gy = gyisland(bus_n, islanded_buses, d.Gy)]
    ELSE d

\* the models are registered and Call.setup is run before the islands are
\* looked for
plan_register(dev) ==
    /\ connectivity.at = "call"
    /\ EditRegister(dev)

plan_add(dev) ==
    /\ connectivity.at = "call"
    /\ EditAdd(dev)

plan_setup ==
    /\ connectivity.at = "call"
    /\ CallSetup

\* system.check_islands(): Line.connectivity, once the plans are compiled
plan_islands ==
    /\ pc.at = "built"
    /\ \/ connectivity_begin
       \/ connectivity_inner
       \/ connectivity_outer

\* exec(system.Call.newton) or exec(system.Call.int) begins
plan_exec(name) ==
    /\ pc.at \in {"built", "done"}
    /\ connectivity.at = "return"
    /\ pc' = [at |-> "exec", plan |-> name, k |-> 1]
    /\ UNCHANGED <<devices, group, n, idx, int, addr, xy, Bus, DAE, outcome,
                   Call, connectivity, simVars>>

\* the next operation of the plan; after the last one the routine computes
\* the symbolic factorization and clears the flag (timedomain.py:136-138)
plan_step ==
    /\ pc.at = "exec"
    /\ LET ops == Exec(Call[pc.plan], dae.factorize)
       IN  IF pc.k <= Len(ops)
           THEN /\ dae' = apply(ops[pc.k], dae, connectivity.nb,
                                connectivity.islanded_buses)
                /\ pc' = [pc EXCEPT !.k = @ + 1]
           ELSE /\ dae' = [dae EXCEPT !.factorize = FALSE]
                /\ pc' = [pc EXCEPT !.at = "done"]
    /\ UNCHANGED <<devices, group, n, idx, int, addr, xy, Bus, DAE, outcome,
                   Call, connectivity, TDS, td, VarOut, main, newton>>

InitPlan ==
    /\ InitSystem
    /\ \E net \in UNION {ChainNetworks(b) : b \in 1..MaxBus}, f \in BOOLEAN :
          /\ connectivity = Called(net)
          /\ dae = [g |-> [k \in 0..(2 * net.nb - 1) |-> 1],
                    Gy |-> [k \in 0..(2 * net.nb - 1) |-> Jac],
                    Gy0 |-> [k \in 0..(2 * net.nb - 1) |-> Jac],
                    factorize |-> f]
    /\ TDS = NotCalled /\ td = NotCalled /\ VarOut = <<>> /\ main = NotCalled
    /\ newton = NotCalled

NextPlan ==
    \/ \E dev \in PlanModels : plan_register(dev)
    \/ \E dev \in PlanModels : plan_add(dev)
    \/ plan_setup
    \/ plan_islands
    \/ \E name \in PlanNames : plan_exec(name)
    \/ plan_step

SpecPlan == InitPlan /\ [][NextPlan]_vars

\* ------------------------------------------------------ timedomain.run
\* Times and step sizes are exact multiples of a tick; a second is chosen
\* so that every quotient the routine forms below is exact.
Second == 300 * 64 * 2000

Max(a, b) == IF a > b THEN a ELSE b
Abs(a) == IF a < 0 THEN 0 - a ELSE a
Scale(x, p, q) == (x * p) \div q

\* what the routine reads from the rest of the system: DAE.n, the entry
\* abs(As[0, 0]) of the state matrix (read only when DAE.n = 1),
\* Settings.freq, and the event times Fault.get_times returns
SystemCases ==
    {[daen |-> 0, As |-> 0, sysfreq |-> 50], [daen |-> 1, As |-> 0, sysfreq |-> 60],
     [daen |-> 1, As |-> 300, sysfreq |-> 50], [daen |-> 2, As |-> 0, sysfreq |-> 60]}
EventTimes == {Second \div 100, Second \div 50, (5 * Second) \div 2}
FaultTimes == UNION {[1..k -> EventTimes] : k \in 0..MaxEvents}

\* the settings a run is started with: t0, tf, fixt, tstep, maxit
SettingsCases ==
    {[t0 |-> 0, tf |-> 5 * Second, fixt |-> f, tstep |-> ts, maxit |-> mi,
      deltat |-> 0, deltatmin |-> 0, deltatmax |-> 0] :
        f \in BOOLEAN, ts \in {0, Second \div 4800, (5 * Second) \div 2},
        mi \in {3, 20}}

\* first_time_step(system), lines 5-42: the settings it leaves and the
\* warnings it logs
first_time_step(S, sys) ==
    LET f0 == IF sys.daen = 0 THEN 1
              ELSE IF sys.daen = 1 THEN sys.As ELSE 20
        f1 == IF f0 > sys.sysfreq THEN sys.sysfreq ELSE f0
        freq == IF f1 = 0 THEN 20 ELSE f1
        Tspan == Abs(S.tf - S.t0)
        Tcycle == Second \div freq
        dmax == Min(5 * Tcycle, Tspan \div 100)
        dt == Min(Tcycle, Tspan \div 100)
        dmin == Min(Tcycle \div 64, dmax \div 20)
        S1 == [S EXCEPT !.deltatmax = dmax, !.deltat = dt, !.deltatmin = dmin]
    IN  IF S.fixt
        THEN IF S.tstep <= 0
             THEN [TDS |-> [S1 EXCEPT !.fixt = FALSE], log |-> {"WARNING"}]
             ELSE [TDS |-> [S1 EXCEPT !.deltat = S.tstep],
                   log |-> IF S.tstep < dmin THEN {"WARNING"} ELSE {}]
        ELSE [TDS |-> S1, log |-> {}]

\* time_step that leaves the step size as it is after a rejected step
time_step_NoHalve(S, convergence, niter) ==
    IF convergence
    THEN LET d1 == IF niter >= 15 THEN Max(Scale(S.deltat, 9, 10), S.deltatmin)
                   ELSE IF niter <= 10
                        THEN Min(Scale(S.deltat, 6, 5), S.deltatmax)
                        ELSE S.deltat
         IN  [S EXCEPT !.deltat = IF S.fixt THEN Min(S.tstep, d1) ELSE d1]
    ELSE S

\* time_step with the two factors exchanged
time_step_Swapped(S, convergence, niter) ==
    IF convergence
    THEN LET d1 == IF niter >= 15 THEN Min(Scale(S.deltat, 6, 5), S.deltatmax)
                   ELSE IF niter <= 10
                        THEN Max(Scale(S.deltat, 9, 10), S.deltatmin)
                        ELSE S.deltat
         IN  [S EXCEPT !.deltat = IF S.fixt THEN Min(S.tstep, d1) ELSE d1]
    ELSE LET d2 == Scale(S.deltat, 1, 2)
         IN  [S EXCEPT !.deltat = IF d2 < S.deltatmin THEN 0 ELSE d2]

\* time_step(system, convergence, niter, t), lines 190-212
time_step(S, convergence, niter) ==
    IF convergence
    THEN LET d1 == IF niter >= 15 THEN Max(Scale(S.deltat, 9, 10), S.deltatmin)
                   ELSE IF niter <= 10
                        THEN Min(Scale(S.deltat, 6, 5), S.deltatmax)
                        ELSE S.deltat
         IN  [S EXCEPT !.deltat = IF S.fixt THEN Min(S.tstep, d1) ELSE d1]
    ELSE LET d2 == Scale(S.deltat, 1, 2)
         IN  [S EXCEPT !.deltat = IF d2 < S.deltatmin THEN 0 ELSE d2]

\* ascending sequence of the members of a set
RECURSIVE sorted(_)
sorted(T) ==
    IF T = {} THEN <<>>
    ELSE LET m == CHOOSE x \in T : \A y \in T : x <= y
         IN  <<m>> \o sorted(T \ {m})

\* get_times that returns the event times as the Fault model gave them
get_times_Unsorted(times) == times

\* Call.get_times, call.py:79-87
get_times(times) ==
    IF times # <<>> THEN sorted(Range(times)) ELSE times

\* the alignment without the test item > t: the first event time before
\* t + h
RECURSIVE Align_NoLowerBound(_, _, _)
Align_NoLowerBound(fixed_times, t, h) ==
    IF fixed_times = <<>>
    THEN [actual_time |-> t + h, h |-> h, switch |-> FALSE]
    ELSE IF Head(fixed_times) < t + h
         THEN [actual_time |-> Head(fixed_times),
               h |-> Head(fixed_times) - t, switch |-> TRUE]
         ELSE Align_NoLowerBound(Tail(fixed_times), t, h)

\* lines 88-93: the first event time strictly inside (t, t + h), if any;
\* the result is the end time and the length of the trial step
RECURSIVE Align(_, _, _)
Align(fixed_times, t, h) ==
    IF fixed_times = <<>>
    THEN [actual_time |-> t + h, h |-> h, switch |-> FALSE]
    ELSE IF Head(fixed_times) > t /\ Head(fixed_times) < t + h
         THEN [actual_time |-> Head(fixed_times),
               h |-> Head(fixed_times) - t, switch |-> TRUE]
         ELSE Align(Tail(fixed_times), t, h)

\* the end time that an accepted step leaves in t without advancing it
EndTime_Stale(t, actual_time) == t

\* line 172: t = actual_time
EndTime(t, actual_time) == actual_time

\* VarOut.store(t)
store(V, t) == Append(V, t)

\* the iteration counts the Newton loop of lines 117-161 can end with: 1 to
\* maxit, or maxit + 2 after a singular matrix (niter = maxit + 1, then
\* niter += 1)
Niters(maxit) == ({1, 10, 11, 15, 16} \cap (1..maxit)) \cup {maxit, maxit + 2}

\* the run is called on a system with given settings
TdCalled(S, sys, times) ==
    [at |-> "call", daen |-> sys.daen, As |-> sys.As, sysfreq |-> sys.sysfreq,
     times |-> times, t |-> 0, h |-> 0, step |-> 0, switch |-> FALSE,
     fixed_times |-> <<>>, actual_time |-> 0, xa |-> 0, ya |-> 0, fn |-> 0,
     niter |-> 0, trials |-> 0, last |-> "none", checked |-> <<>>,
     outcomes |-> <<>>, log |-> {}]

\* lines 47-73
td_begin ==
    /\ td.at = "call"
    /\ LET r == first_time_step(TDS, td)
       IN  /\ TDS' = r.TDS
           /\ td' = [td EXCEPT !.at = "loop", !.t = TDS.t0, !.step = 0,
                               !.switch = FALSE, !.h = r.TDS.deltat,
                               !.fixed_times = get_times(td.times),
                               !.last = "first", !.log = r.log]
           /\ VarOut' = store(VarOut, TDS.t0)
    /\ UNCHANGED <<regVars, Call, connectivity, dae, main, newton>>

\* the loop runs another trial step: t <= tf, t + h > t and, after the
\* step is cut at tf, h # 0
Continues ==
    /\ td.t <= TDS.tf /\ td.t + td.h > td.t
    /\ Min(td.h, TDS.tf - td.t) # 0

\* lines 76-116 and the end of the Newton loop of lines 117-161, which ends
\* with the iteration count niter: the locals of the run after them;
\* checked lists the times Fault.checktime was called with (lines 107-110)
trial(niter) ==
    LET h0 == Min(td.h, TDS.tf - td.t)
        al == Align(td.fixed_times, td.t, h0)
    IN  [td EXCEPT !.at = "newton", !.h = al.h,
                   !.actual_time = al.actual_time,
                   !.switch = FALSE,
                   !.checked = IF al.switch
                               THEN Append(@, al.actual_time)
                               ELSE @,
                   !.xa = dae.x, !.ya = dae.y, !.fn = dae.f,
                   !.niter = niter,
                   !.log = IF niter > TDS.maxit
                           THEN @ \cup {"ERROR"} ELSE @]

\* lines 76-161: one trial step up to the end of its Newton loop, which ends
\* with some iteration count and has moved x and y
td_trial ==
    /\ td.at = "loop"
    /\ Continues
    /\ td.trials < MaxTrials
    /\ \E niter \in Niters(TDS.maxit) :
          td' = [trial(niter) EXCEPT !.trials = @ + 1]
    /\ dae' = [dae EXCEPT !.x = @ + 1, !.y = @ + 1, !.f = @ + 1]
    /\ UNCHANGED <<regVars, Call, connectivity, TDS, VarOut, main, newton>>

\* lines 163-169: the step is rejected
td_reject ==
    /\ td.at = "newton"
    /\ td.niter >= TDS.maxit
    /\ TDS' = time_step(TDS, FALSE, td.niter)
    /\ td' = [td EXCEPT !.at = "loop", !.h = TDS'.deltat,
                        !.last = "rejected", !.log = @ \cup {"DEBUG"}]
    /\ dae' = [dae EXCEPT !.x = td.xa, !.y = td.ya, !.f = td.fn]
    /\ UNCHANGED <<regVars, Call, connectivity, VarOut, main, newton>>

\* lines 171-187: the step is accepted
td_accept ==
    /\ td.at = "newton"
    /\ ~(td.niter >= TDS.maxit)
    /\ TDS' = time_step(TDS, TRUE, td.niter)
    /\ td' = [td EXCEPT !.at = "loop", !.t = EndTime(td.t, td.actual_time),
                        !.step = @ + 1, !.h = TDS'.deltat,
                        !.last = "accepted"]
    /\ VarOut' = store(VarOut, td'.t)
    /\ UNCHANGED <<regVars, Call, connectivity, dae, main, newton>>

\* the loop ends and run returns: nothing is logged and nothing is raised
td_return ==
    /\ td.at = "loop"
    /\ ~Continues
    /\ td' = [td EXCEPT !.at = "return"]
    /\ outcome' = Returned("run", "timedomain")
    /\ UNCHANGED <<devices, group, n, idx, int, addr, xy, Bus, DAE, pc, Call,
                   connectivity, dae, TDS, VarOut, main, newton>>

InitTd ==
    /\ InitSystem
    /\ connectivity = NotCalled
    /\ main = NotCalled
    /\ newton = NotCalled
    /\ VarOut = <<>>
    /\ dae = [x |-> 0, y |-> 0, f |-> 0]
    /\ TDS \in {S \in SettingsCases : S.fixt \/ S.tstep = 0}
    /\ \E sys \in SystemCases, times \in FaultTimes :
          td = TdCalled(TDS, sys, times)

NextTd ==
    \/ td_begin
    \/ td_trial
    \/ td_reject
    \/ td_accept
    \/ td_return

SpecTd == InitTd /\ [][NextTd]_vars

\* ---------------------------------------------- runs followed to their end
\* The Newton loops of a run end with the iteration counts of td.outcomes,
\* taken in turn and repeated from the start: the number of trial steps of
\* the run is not limited. A sequence of outcomes is some count a up to
\* MaxRepeat times, then some count b.
Patterns(maxit) ==
    {[i \in 1..(k + 1) |-> IF i <= k THEN a ELSE b] :
        a \in Niters(maxit), b \in Niters(maxit), k \in 0..MaxRepeat}

\* the runs that are followed: a system without state variables, automatic
\* stepping or a fixed step of half the simulated span, no event, one event
\* or all of them
RunSystems == {sys \in SystemCases : sys.daen = 0}
RunTimes == {sorted(T) : T \in {{}, {(5 * Second) \div 2}, EventTimes}}
RunSettings ==
    {S \in SettingsCases :
        /\ S.fixt = (S.tstep = (5 * Second) \div 2)
        /\ S.tstep # Second \div 4800}

\* lines 76-161 with the iteration count the run is given for this trial
run_trial ==
    /\ td.at = "loop"
    /\ Continues
    /\ td.outcomes # <<>>
    /\ td' = [trial(Head(td.outcomes)) EXCEPT
                 !.outcomes = Tail(@) \o <<Head(@)>>]
    /\ dae' = [dae EXCEPT !.x = @ + 1, !.y = @ + 1, !.f = @ + 1]
    /\ UNCHANGED <<regVars, Call, connectivity, TDS, VarOut, main, newton>>

InitRun ==
    /\ InitSystem
    /\ connectivity = NotCalled
    /\ main = NotCalled
    /\ newton = NotCalled
    /\ VarOut = <<>>
    /\ dae = [x |-> 0, y |-> 0, f |-> 0]
    /\ TDS \in RunSettings
    /\ \E sys \in RunSystems, times \in RunTimes,
          pat \in Patterns(TDS.maxit) :
          td = [TdCalled(TDS, sys, times) EXCEPT !.outcomes = pat]

NextRun ==
    \/ td_begin
    \/ run_trial
    \/ td_reject
    \/ td_accept
    \/ td_return

\* the routine is one sequential activation: its next statement is always
\* executed
SpecRun == InitRun /\ [][NextRun]_vars /\ WF_vars(NextRun)

\* ------------------------------------------- the Newton loop of a trial step
\* Lines 116-161 of timedomain.run, one iteration in four steps: the plan
\* Call.int, the symbolic factorization, the solve with its handlers, the
\* update.  numeric and solve are library code: each attempt returns or
\* raises ArithmeticError or ValueError.  Whether the error left by an
\* iteration is above tol is any of the two.  The frame holds niter,
\* DAE.factorize (with its value when the iteration started), what the
\* iteration has done so far, the number of numeric/solve attempts of the
\* iteration, and whether a handler has set niter to maxit + 1.
Attempts == {"return", "ArithmeticError", "ValueError"}

\* call.py:199-204, the part of the plan under "if system.DAE.factorize"
reseed(factorize) ==
    IF factorize THEN <<"init_jac0", "jac0">> ELSE <<>>

NewtonCalled(factorize) ==
    [at |-> "test", niter |-> 0, factorize |-> factorize,
     started |-> FALSE, did |-> <<>>, attempts |-> 0, quit |-> FALSE,
     error |-> "above", log |-> {}]

\* line 117
NewtonContinues == newton.error = "above" /\ newton.niter < TDS.maxit

\* lines 117-134: the loop test, exec(system.Call.int), Ac and q
newton_int ==
    /\ newton.at = "test"
    /\ NewtonContinues
    /\ newton' = [newton EXCEPT !.at = "factor",
                                !.started = newton.factorize,
                                !.did = reseed(newton.factorize),
                                !.attempts = 0, !.quit = FALSE]
    /\ UNCHANGED <<regVars, Call, connectivity, dae, TDS, td, VarOut, main>>

\* lines 136-139
newton_factor ==
    /\ newton.at = "factor"
    /\ newton' = IF newton.factorize
                 THEN [newton EXCEPT !.at = "solve",
                                     !.did = Append(@, "symbolic"),
                                     !.factorize = FALSE]
                 ELSE [newton EXCEPT !.at = "solve"]
    /\ UNCHANGED <<regVars, Call, connectivity, dae, TDS, td, VarOut, main>>

\* lines 143-152: the first attempt and its two handlers
newton_solve ==
    /\ newton.at = "solve"
    /\ \E r \in Attempts :
          newton' =
             IF r = "return"
             THEN [newton EXCEPT !.at = "update", !.attempts = 1]
             ELSE IF r = "ArithmeticError"
             THEN [newton EXCEPT !.at = "update", !.attempts = 1,
                                 !.niter = TDS.maxit + 1, !.quit = TRUE,
                                 !.log = @ \cup {"ERROR"}]
             ELSE [newton EXCEPT !.at = "retry", !.attempts = 1,
                                 !.did = Append(@, "symbolic"),
                                 !.log = @ \cup {"WARNING"}]
    /\ UNCHANGED <<regVars, Call, connectivity, dae, TDS, td, VarOut, main>>

\* lines 153-157: the second attempt; only ArithmeticError is handled
newton_retry ==
    /\ newton.at = "retry"
    /\ \E r \in Attempts :
          newton' =
             IF r = "return"
             THEN [newton EXCEPT !.at = "update", !.attempts = 2]
             ELSE IF r = "ArithmeticError"
             THEN [newton EXCEPT !.at = "update", !.attempts = 2,
                                 !.niter = TDS.maxit + 1, !.quit = TRUE,
                                 !.log = @ \cup {"ERROR"}]
             ELSE [newton EXCEPT !.at = "ValueError", !.attempts = 2]
    /\ UNCHANGED <<regVars, Call, connectivity, dae, TDS, td, VarOut, main>>

\* lines 158-161
newton_update ==
    /\ newton.at = "update"
    /\ \E e \in {"above", "below"} :
          newton' = [newton EXCEPT !.at = "test", !.niter = @ + 1,
                                   !.error = e]
    /\ UNCHANGED <<regVars, Call, connectivity, dae, TDS, td, VarOut, main>>

\* lines 117 and 163: the loop ends; the step is rejected or accepted
newton_end ==
    /\ newton.at = "test"
    /\ ~NewtonContinues
    /\ newton' = [newton EXCEPT
                    !.at = IF newton.niter >= TDS.maxit
                           THEN "rejected" ELSE "accepted"]
    /\ UNCHANGED <<regVars, Call, connectivity, dae, TDS, td, VarOut, main>>

\* a trial step of some run: factorize is set by line 60 on the first step
\* and is whatever the last step and the interventions left on a later one
InitNewton ==
    /\ InitSystem
    /\ connectivity = NotCalled
    /\ dae = NotCalled
    /\ td = NotCalled
    /\ VarOut = <<>>
    /\ main = NotCalled
    /\ TDS \in SettingsCases
    /\ \E factorize \in BOOLEAN : newton = NewtonCalled(factorize)

NextNewton ==
    \/ newton_int
    \/ newton_factor
    \/ newton_solve
    \/ newton_retry
    \/ newton_update
    \/ newton_end

SpecNewton == InitNewton /\ [][NextNewton]_vars

\* ------------------------------------------------------------ main.run
\* main.run(case, **kwargs), lines 200-345.  The frame holds the keyword
\* arguments the function reads, Settings.base and Files.no_output of the
\* system, the results of filters.guess, filters.parse and powerflow.run
\* (code outside this module: any result), and the calls made on the system,
\* in order.  The profiler and the timing messages are left out.
Routines == {"none", "td", "Time", "t", "cpf", "sssa", "pflow"}

lower(w) == IF w = "Time" THEN "time" ELSE w

\* lines 303-311: the routine after normalization
routine_of(w) ==
    IF w = "none" THEN "none"
    ELSE IF lower(w) \in {"time", "td", "t"} THEN "td"
    ELSE IF lower(w) \in {"cpf", "c"} THEN "cpf"
    ELSE IF lower(w) \in {"small", "ss", "sssa", "s"} THEN "sssa"
    ELSE w

MainCalled(k) ==
    [at |-> "parse", dump_raw |-> k.dump_raw, summary |-> k.summary,
     exit |-> k.exit, routine |-> k.routine, base |-> k.base,
     no_output |-> k.no_output, solved |-> "unset", calls |-> <<>>,
     log |-> <<>>]

Kwargs ==
    [dump_raw : BOOLEAN, summary : BOOLEAN, exit : BOOLEAN,
     routine : Routines, base : BOOLEAN, no_output : BOOLEAN]

mainFrame == <<devices, group, n, idx, int, addr, xy, Bus, DAE, outcome, pc,
               Call, connectivity, dae, TDS, td, VarOut, newton>>

\* lines 223-232: filters.guess and filters.parse
main_parse ==
    /\ main.at = "parse"
    /\ \E guess \in BOOLEAN, parse \in BOOLEAN :
          main' =
             IF ~guess
             THEN [main EXCEPT !.at = "return",
                               !.calls = Append(@, "filters.guess"),
                               !.log = Append(@, "Unable to determine case format.")]
             ELSE IF ~parse
             THEN [main EXCEPT !.at = "return",
                               !.calls = @ \o <<"filters.guess", "filters.parse">>,
                               !.log = Append(@, "Parse input file failed.")]
             ELSE [main EXCEPT !.at = "parsed",
                               !.calls = @ \o <<"filters.guess", "filters.parse">>]
    /\ UNCHANGED mainFrame

\* lines 234-252: raw dump, summary only, exit before the power flow
main_early ==
    /\ main.at = "parsed"
    /\ LET dumped == IF main.dump_raw
                     THEN Append(main.calls, "filters.dump_raw")
                     ELSE main.calls
       IN  main' =
             IF main.summary
             THEN [main EXCEPT !.at = "return",
                               !.calls = Append(dumped, "Report.writey")]
             ELSE IF main.exit
             THEN [main EXCEPT !.at = "return", !.calls = dumped,
                               !.log = Append(@, "Exiting before solving power flow.")]
             ELSE [main EXCEPT !.at = "setup", !.calls = dumped]
    /\ UNCHANGED mainFrame

\* lines 254-267: system.setup, base and init_pf (both under the test of
\* Settings.base), check_islands
main_setup ==
    /\ main.at = "setup"
    /\ main' = [main EXCEPT
                  !.at = "powerflow",
                  !.calls = @ \o <<"system.setup">>
                              \o (IF main.base
                                  THEN <<"system.base", "system.init_pf">>
                                  ELSE <<>>)
                              \o <<"system.check_islands">>]
    /\ UNCHANGED mainFrame

\* lines 284-299: powerflow.run, then td_init and the static report when
\* SPF.solved
main_powerflow ==
    /\ main.at = "powerflow"
    /\ \E solved \in BOOLEAN :
          main' =
             IF ~solved
             THEN [main EXCEPT !.at = "routine", !.solved = "False",
                               !.calls = Append(@, "powerflow.run"),
                               !.log = Append(@, "Power flow failed to converge")]
             ELSE [main EXCEPT !.at = "routine", !.solved = "True",
                               !.calls = @ \o <<"powerflow.run", "system.td_init">>
                                           \o (IF ~main.no_output
                                               THEN <<"Report.write">>
                                               ELSE <<>>),
                               !.log = Append(@, "Power flow converged")]
    /\ UNCHANGED mainFrame

\* lines 301-323: the routine asked for
main_routine ==
    /\ main.at = "routine"
    /\ main' =
          IF routine_of(main.routine) = "td"
          THEN [main EXCEPT !.at = "return", !.routine = "td",
                            !.calls = @ \o <<"timedomain.run">>
                                        \o (IF ~main.no_output
                                            THEN <<"VarOut.dump">>
                                            ELSE <<>>),
                            !.log = Append(@, "Time domain simulation finished")]
          ELSE [main EXCEPT !.at = "return",
                            !.routine = routine_of(main.routine)]
    /\ UNCHANGED mainFrame

InitMain ==
    /\ InitSystem
    /\ connectivity = NotCalled
    /\ dae = NotCalled
    /\ TDS = NotCalled
    /\ td = NotCalled
    /\ VarOut = <<>>
    /\ newton = NotCalled
    /\ \E k \in Kwargs : main = MainCalled(k)

NextMain ==
    \/ main_parse
    \/ main_early
    \/ main_setup
    \/ main_powerflow
    \/ main_routine

SpecMain == InitMain /\ [][NextMain]_vars

\* ---------------------------------------------------------------- claims
RECURSIVE SetSum(_, _)
SetSum(f, S) ==
    IF S = {} THEN 0
    ELSE LET x == CHOOSE y \in S : TRUE IN f[x] + SetSum(f, S \ {x})

\* the (model, variable, position) slots that hold an address
DiffSlots ==
    {<<d, v, k>> \in Models \X {"delta", "omega"} \X (1..(MaxElem + 1)) :
        v \in Range(_states[d]) /\ k <= Len(xy[d][v])}
AlgSlots ==
    {s \in UNION {{d} \X Range(_algebs[d]) \X (1..(MaxElem + 1)) : d \in Models} :
        s[3] <= Len(xy[s[1]][s[2]])}
BusAddrs == Range(Bus.a) \cup Range(Bus.v)
DiffSet(d) == {xy[s[1]][s[2]][s[3]] : s \in {t \in DiffSlots : t[1] = d}}
AlgSet(d) ==
    IF d = "Bus" THEN BusAddrs
    ELSE {xy[s[1]][s[2]][s[3]] : s \in {t \in AlgSlots : t[1] = d}}
Injective(S) ==
    \A s, t \in S : s # t => xy[s[1]][s[2]][s[3]] # xy[t[1]][t[2]][t[3]]
AllAddressed == pc.at = "ready"

\* C1: once Bus.setup has run and every model has been addressed, DAE.n is
\* the sum over the models of (element count x number of differential
\* variables), and every address is unique and lies in [0, DAE.n) for a
\* differential variable, in [0, DAE.m) for an algebraic variable or a bus
\* angle/voltage.
C1_AddressingInvariant ==
    AllAddressed =>
        /\ DAE.n = SetSum([d \in Models |-> n[d] * Len(_states[d])], Models)
        /\ Injective(DiffSlots)
        /\ \A d \in Models : DiffSet(d) \subseteq 0..(DAE.n - 1)
        /\ Injective(AlgSlots)
        /\ Len(Bus.a) + Len(Bus.v) = Cardinality(BusAddrs)
        /\ \A d \in Models : AlgSet(d) \subseteq 0..(DAE.m - 1)
        /\ \A d \in Models \ {"Bus"} : AlgSet(d) \cap BusAddrs = {}

C1_Witness ==
    /\ AllAddressed
    /\ n["Bus"] >= 1 /\ n["Ord2"] = 2 /\ n["Syn2"] >= 1
    /\ addr["Ord2"] /\ addr["Syn2"]

\* C2 as stated: the addresses of one variable across the elements of a
\* model are consecutive integers in registration order.
C2_Consecutive ==
    AllAddressed =>
        \A d \in Models : \A v \in VarNames(d) :
            \A k \in 1..(Len(xy[d][v]) - 1) : xy[d][v][k + 1] = xy[d][v][k] + 1

IsBlock(S) ==
    S = {} \/ \E lo \in S : S = lo..(lo + Cardinality(S) - 1)

\* C2 amended: the addresses of one variable across the elements of a model
\* increase in registration order with a constant stride, the number of the
\* model's variables of that kind; the differential (algebraic) addresses of
\* one model fill one contiguous block; blocks of different models are
\* disjoint.
C2_StridedBlocks ==
    AllAddressed =>
        /\ \A d \in Models : \A k \in 1..(n[d] - 1) :
              /\ \A v \in Range(_states[d]) :
                    xy[d][v][k + 1] = xy[d][v][k] + Len(_states[d])
              /\ \A v \in Range(_algebs[d]) :
                    xy[d][v][k + 1] = xy[d][v][k] + Len(_algebs[d])
        /\ \A d \in Models :
              /\ IsBlock(DiffSet(d)) /\ IsBlock(AlgSet(d))
              /\ Cardinality(DiffSet(d)) = n[d] * Len(_states[d])
              /\ d # "Bus" => Cardinality(AlgSet(d)) = n[d] * Len(_algebs[d])
        /\ \A d, e \in Models :
              d # e => /\ DiffSet(d) \cap DiffSet(e) = {}
                       /\ AlgSet(d) \cap AlgSet(e) = {}

C2_Witness ==
    /\ AllAddressed
    /\ n["Bus"] = 2 /\ n["Syn2"] = 2 /\ n["Ord2"] = 1
    /\ xy["Syn2"]["delta"][2] = xy["Syn2"]["delta"][1] + 2

\* a step in which op is called on dev
Calls(op, dev) ==
    /\ outcome'.op = op /\ outcome'.dev = dev
    /\ (outcome' # outcome \/ n' # n \/ DAE' # DAE \/ xy' # xy)

C4_LateAddRejected ==
    [][\A d \in Models :
          (addr[d] /\ Calls("add", d)) =>
              /\ outcome'.result = "LateMutationError"
              /\ n'[d] = n[d]
              /\ DAE' = DAE]_vars

\* ------------------------------------------------ claims on the dispatcher
Plans(c) == <<c.newton, c.fdpf, c.pfload, c.pfgen, c.seriesflow, c.int>>

\* a step that runs Call.setup
SetupStep ==
    /\ outcome'.op = "setup" /\ outcome'.dev = "Call"
    /\ (Call' # Call \/ outcome' # outcome \/ pc' # pc)

\* the equation calls of the models, as opposed to the fixed steps of a plan
\* (the resets of the DAE and the neutralizations Bus.gisland, Bus.gyisland)
ModelCalls == {"gcall", "fcall", "jac0", "gycall", "fxcall", "seriesflow"}

\* the (operation, model) pairs a plan holds
Pairs(plan) ==
    {<<plan[i].op, plan[i].dev>> :
        i \in {j \in DOMAIN plan : plan[j].op \in ModelCalls}}

\* model d has elements and declares capability c
Has(d, c) == n[d] > 0 /\ c \in calls[d]

\* the (operation, model) pairs each plan should hold for the current
\* population, by the capabilities its passes require
Wanted ==
    LET reg == Range(devices)
        pf(op) == {<<op, d>> : d \in {e \in reg : Has(e, "pflow") /\ Has(e, op)}}
        tdp(op) == {<<op, d>> : d \in {e \in reg : Has(e, op)}}
    IN <<pf("gcall") \cup pf("fcall") \cup pf("jac0") \cup pf("gycall"),
         pf("gcall"),
         {<<"gcall", d>> : d \in {e \in reg :
             /\ Has(e, "gcall") /\ Has(e, "pflow")
             /\ Has(e, "shunt") /\ ~Has(e, "stagen")}},
         {<<"gcall", d>> : d \in {e \in reg :
             /\ Has(e, "gcall") /\ Has(e, "pflow")
             /\ (Has(e, "shunt") \/ Has(e, "series")) /\ ~Has(e, "stagen")}},
         {<<"seriesflow", d>> : d \in {e \in reg :
             Has(e, "pflow") /\ Has(e, "series")}},
         tdp("gcall") \cup tdp("fcall") \cup tdp("jac0") \cup tdp("gycall")
             \cup tdp("fxcall")>>

\* C5: when Call.setup is run again after the population changed, every
\* rebuilt plan holds exactly the models that now have elements and declare
\* the capabilities the plan requires.
C5_RebuiltPlansAreFresh ==
    [][(SetupStep /\ pc.at = "load" /\ Call.newton # <<>>) =>
          \A i \in 1..6 : Pairs(Plans(Call')[i]) = Wanted[i]]_vars

\* C6: a model that has no element when the plans are built has none of
\* its equation calls in any of the six plans.
C6_EmptyModelNotInvoked ==
    [][SetupStep =>
          \A d \in Models : n[d] = 0 =>
              \A i \in 1..6 : \A o \in Pairs(Plans(Call')[i]) : o[2] # d]_vars

\* the operations of a trace, in order, as (operation, object) pairs, leaving
\* out the operations named in skip
Trace(t, skip) ==
    LET kept == SelectSeq(t, LAMBDA o : o.op \notin skip)
    IN [i \in 1..Len(kept) |-> <<kept[i].op, kept[i].dev>>]

\* the pass "op of each model with op and pflow", in device-list order
PflowPass(op) ==
    LET sel == SelectSeq(devices,
                         LAMBDA d : Has(d, "pflow") /\ Has(d, op))
    IN [i \in 1..Len(sel) |-> <<op, sel[i]>>]

\* C8: the Newton plan executes, in order: reset of g and f; gcall of each
\* model with gcall and pflow; fcall of each model with fcall and pflow;
\* neutralization of g; if and only if factorize, the reseed of the constant
\* Jacobian blocks and jac0 of each model with jac0 and pflow; gycall of each
\* model with gycall and pflow; neutralization of Gy; models in device-list
\* order, and no model lacking pflow.
C8_NewtonPlanAsStated ==
    [][SetupStep =>
          \A f \in BOOLEAN :
              Trace(Exec(Call'.newton, f), {"setup_Gy"}) =
                  <<<<"init_fg", "DAE">>>> \o PflowPass("gcall")
                  \o PflowPass("fcall") \o <<<<"gisland", "Bus">>>>
                  \o (IF f THEN <<<<"init_jac0", "DAE">>>> \o PflowPass("jac0")
                      ELSE <<>>)
                  \o PflowPass("gycall") \o <<<<"gyisland", "Bus">>>>]_vars

\* the operations of t are ordered by rank; the g and Gy neutralizations and
\* the two resets each occur once; the reseed occurs exactly when factorize
\* is set, and jac0 only then
Ordered(t, rank, factorize) ==
    /\ \A i, j \in DOMAIN t : i < j => rank[t[i].op] <= rank[t[j].op]
    /\ \A op \in {"init_fg", "gisland", "setup_FxGy", "gyisland"} :
          Cardinality({i \in DOMAIN t : t[i].op = op}) = 1
    /\ Cardinality({i \in DOMAIN t : t[i].op = "init_jac0"}) =
          (IF factorize THEN 1 ELSE 0)
    /\ (\E i \in DOMAIN t : t[i].op = "jac0") => factorize

\* C7 as stated: gcall pass, fcall pass, neutralization of g, (if factorize)
\* reseed and jac0 pass, gycall pass, fxcall pass, neutralization of Gy.
C7_OrderAsStated ==
    Call.int # <<>> =>
        \A f \in BOOLEAN :
            Ordered(Exec(Call.int, f),
                    [init_fg |-> 0, gcall |-> 1, fcall |-> 2, gisland |-> 3,
                     init_jac0 |-> 4, jac0 |-> 5, setup_FxGy |-> 6,
                     gycall |-> 7, fxcall |-> 8, gyisland |-> 9], f)

\* C7 amended: gcall pass, neutralization of g, fcall pass, (only if
\* factorize) reseed and jac0 pass, gycall pass, fxcall pass, neutralization
\* of Gy.
C7_OrderOfIntPlan ==
    Call.int # <<>> =>
        \A f \in BOOLEAN :
            Ordered(Exec(Call.int, f),
                    [init_fg |-> 0, gcall |-> 1, gisland |-> 2, fcall |-> 3,
                     init_jac0 |-> 4, jac0 |-> 5, setup_FxGy |-> 6,
                     gycall |-> 7, fxcall |-> 8, gyisland |-> 9], f)

C7_Witness ==
    /\ \A op \in {"gcall", "fcall", "jac0", "gycall", "fxcall"} :
          <<op, "Syn2">> \in Pairs(Call.int)
    /\ <<"gcall", "Line">> \in Pairs(Call.int)

\* C9: running Call.setup again on an unchanged population leaves all six
\* plans as they were.
C9_RebuildIdempotent ==
    [][(SetupStep /\ pc.at = "built") => Plans(Call') = Plans(Call)]_vars

C9_Witness ==
    /\ pc.at = "built" /\ pc.k = 2
    /\ Len(Call.vec["pflow"]) >= 2 * Len(devices)
    /\ Len(devices) >= 2
    /\ \E d \in Range(devices) : n[d] = 0
    /\ <<"gcall", "Line">> \in Pairs(Call.newton)

\* C10: Line.connectivity terminates for every network with at least one
\* bus, whatever its branches: every call eventually returns.
C10_ConnectivityTerminates ==
    <>(connectivity.at = "return")

\* ------------------------------------------- claims on islands and routines
\* the buses with no incident branch in service
NoActiveBranch(c) ==
    {b \in 0..(c.nb - 1) :
        \A k \in DOMAIN c.a1 : c.u[k] = 1 => (c.a1[k] # b /\ c.a2[k] # b)}

Returned_connectivity == connectivity.at \in {"return", "gisland", "gyisland"}

\* C11: after Line.connectivity, Bus.islanded_buses is exactly the set of
\* buses with no incident branch in service (u = 1).
C11_IslandedBusesAreInactive ==
    Returned_connectivity =>
        Range(connectivity.islanded_buses) = NoActiveBranch(connectivity)

\* C12: after Line.connectivity, no island of Bus.island_sets contains the
\* reference bus.
C12_NoIslandHoldsReference ==
    Returned_connectivity =>
        \A k \in DOMAIN connectivity.island_sets :
            connectivity.refbus \notin Range(connectivity.island_sets[k])

\* the buses connected to the buses of S through branches in service
RECURSIVE Island(_, _)
Island(c, S) ==
    LET T == S \cup {b \in 0..(c.nb - 1) :
                 \E k \in DOMAIN c.a1 :
                     /\ c.u[k] = 1
                     /\ \/ c.a1[k] \in S /\ c.a2[k] = b
                        \/ c.a2[k] \in S /\ c.a1[k] = b}
    IN  IF T = S THEN S ELSE Island(c, T)

\* C13: for every bus of an island that lacks the reference bus, after
\* Bus.gisland and Bus.gyisland g is zero at the angle and the voltage
\* address of the bus, and the diagonal of Gy there holds the stabilizer.
C13_IslandsNeutralized ==
    connectivity.at = "gyisland" =>
        \A b \in 0..(connectivity.nb - 1) :
            connectivity.refbus \notin Island(connectivity, {b}) =>
                \A k \in {b, connectivity.nb + b} :
                    dae.g[k] = 0 /\ dae.Gy[k] = Stabilizer

\* the buses connected to the buses of S through branches, in service or not
RECURSIVE Component(_, _)
Component(c, S) ==
    LET T == S \cup {b \in 0..(c.nb - 1) :
                 \E k \in DOMAIN c.a1 :
                     \/ c.a1[k] \in S /\ c.a2[k] = b
                     \/ c.a2[k] \in S /\ c.a1[k] = b}
    IN  IF T = S THEN S ELSE Component(c, T)

\* C24: every island Line.connectivity reports in Bus.island_sets is a whole
\* connected component of the graph of buses and branches, and no bus is in
\* two reported islands.
C24_IslandsAreComponents ==
    Returned_connectivity =>
        LET sets == connectivity.island_sets IN
        /\ \A k \in DOMAIN sets :
              /\ sets[k] # <<>>
              /\ Range(sets[k]) = Component(connectivity, {sets[k][1]})
        /\ \A j, k \in DOMAIN sets :
              j # k => Range(sets[j]) \cap Range(sets[k]) = {}

\* C25: at the end of every execution of the Newton plan and of the
\* time-domain plan, for every bus of Bus.islanded_buses g is 0 at the angle
\* address and at the voltage address (angle address + number of buses) and
\* the diagonal of Gy at both addresses is 1e-6, whatever it held before.
C25_IslandedBusesNeutralized ==
    pc.at = "done" =>
        \A k \in DOMAIN connectivity.islanded_buses :
            LET a == connectivity.islanded_buses[k]
                v == connectivity.nb + a
            IN  /\ dae.g[a] = 0 /\ dae.g[v] = 0
                /\ dae.Gy[a] = Stabilizer /\ dae.Gy[v] = Stabilizer

\* a plan with model calls has run on a network with an islanded bus and
\* a bus that is not islanded, whose entries it left alone
C25_Witness ==
    /\ pc.at = "done"
    /\ connectivity.islanded_buses # <<>>
    /\ \E k \in DOMAIN dae.g : dae.g[k] > 0 /\ dae.Gy[k] > Jac

\* ------------------------------------------------ claims on timedomain.run
\* steps of a run: a trial step starts, the trial is rejected, accepted
TrialStep == td.at = "loop" /\ td'.at = "newton"
RejectStep == td.at = "newton" /\ td.niter >= TDS.maxit /\ td'.at = "loop"
AcceptStep == td.at = "newton" /\ td.niter < TDS.maxit /\ td'.at = "loop"

\* C14: when the Newton loop of a trial step ends with niter >= maxit the
\* step is rejected: t is not advanced, no snapshot is stored, x and y get
\* back the values they had when the trial started, and deltat is halved
\* before the next trial (when the half is below deltatmin deltat becomes 0
\* and no further trial is made).
C14_RejectedStepRollsBack ==
    [][/\ TrialStep => (td'.xa = dae.x /\ td'.ya = dae.y /\ TDS.deltat > 0)
       /\ (td.at = "newton" /\ td.niter >= TDS.maxit /\ td' # td) =>
              /\ RejectStep
              /\ td'.t = td.t /\ td'.step = td.step
              /\ VarOut' = VarOut
              /\ dae'.x = td.xa /\ dae'.y = td.ya
              /\ \/ TDS'.deltat * 2 = TDS.deltat /\ td'.h = TDS'.deltat
                 \/ /\ TDS.deltat < 2 * TDS.deltatmin
                    /\ TDS'.deltat = 0
                    /\ ~Continues']_vars

C14_Witness ==
    /\ td.at = "newton" /\ td.last = "rejected"
    /\ td.step >= 1 /\ td.niter = TDS.maxit
    /\ dae.x > td.xa

\* C15: when the halved step size of a rejected step falls below deltatmin
\* the run ends before tf, and it ends with an error: an exception or an
\* ERROR message, unlike a run that reached tf.
C15_CollapseIsReportedFatal ==
    (td.at = "return" /\ td.last = "rejected" /\ TDS.deltat = 0
        /\ td.t < TDS.tf) =>
        (outcome.result # "return" \/ outcome.log = "ERROR")

\* C16: in adaptive stepping, after an accepted step that took more than 15
\* iterations deltat is reduced (it stays only at the floor deltatmin);
\* after one that took 10 or fewer it is increased (it stays only at the
\* ceiling deltatmax); in both cases deltatmin <= deltat <= deltatmax.
C16_AdaptiveStep ==
    [][(AcceptStep /\ ~TDS.fixt) =>
          /\ td.niter > 15 =>
                /\ TDS'.deltat <= TDS.deltat
                /\ TDS.deltat > TDS.deltatmin => TDS'.deltat < TDS.deltat
                /\ TDS'.deltat >= TDS.deltatmin /\ TDS'.deltat <= TDS.deltatmax
          /\ td.niter <= 10 =>
                /\ TDS'.deltat >= TDS.deltat
                /\ TDS.deltat < TDS.deltatmax => TDS'.deltat > TDS.deltat
                /\ TDS'.deltat >= TDS.deltatmin /\ TDS'.deltat <= TDS.deltatmax
          /\ td'.h = TDS'.deltat]_vars

C16_Witness ==
    /\ td.at = "loop" /\ td.last = "accepted" /\ ~TDS.fixt
    /\ td.step = 2 /\ td.niter = 16
    /\ TDS.deltat > TDS.deltatmin /\ TDS.deltat < TDS.deltatmax

\* C17: in fixed-step mode (fixt, tstep > 0) the step size returned by
\* first_time_step, and by time_step after an accepted step, is never below
\* deltatmin.
C17_FixedStepKeepsFloor ==
    (td.at = "loop" /\ td.last \in {"first", "accepted"}
        /\ TDS.fixt /\ TDS.tstep > 0) =>
        td.h >= TDS.deltatmin

\* C18: when event times lie strictly inside the trial step (t, t + h), the
\* step is shortened to end exactly at the earliest of them; a trial step
\* is never made longer by the alignment.
C18_EventAlignment ==
    [][TrialStep =>
          LET h0 == Min(td.h, TDS.tf - td.t)
              inside == {te \in Range(td.times) :
                            td.t < te /\ te < td.t + h0}
          IN  /\ td'.h <= h0
              /\ td'.actual_time = td.t + td'.h
              /\ inside # {} =>
                    /\ td'.actual_time \in inside
                    /\ \A te \in inside : td'.actual_time <= te]_vars

C18_Witness ==
    /\ td.at = "newton" /\ td.step = 0
    /\ td.times = <<Second \div 50, Second \div 100>>
    /\ td.actual_time = Second \div 100
    /\ td.h < TDS.deltat

\* C19: a snapshot is stored once for the initial time and once for each
\* accepted step, with the end time of the step, which is later than every
\* time stored before; no other step stores one.
C19_SnapshotsPerAcceptedStep ==
    [][IF td.at = "call" /\ td'.at = "loop"
       THEN VarOut' = <<TDS.t0>>
       ELSE IF AcceptStep
       THEN /\ VarOut' = Append(VarOut, td.actual_time)
            /\ td.actual_time > VarOut[Len(VarOut)]
            /\ td'.t = td.actual_time
       ELSE VarOut' = VarOut]_vars

C19_Witness ==
    /\ td.at = "loop" /\ td.last = "accepted"
    /\ Len(VarOut) = 3 /\ "DEBUG" \in td.log

\* -------------------------------------------------------- claims on main.run
\* C20: when the power flow does not converge (SPF.solved is false) the run
\* makes no later call: no dynamic initialization, no time-domain simulation
\* and no dump of simulation data.
C20_FailedPowerFlowEndsRun ==
    main.at # "none" /\ main.solved = "False" =>
        \A k \in DOMAIN main.calls :
            main.calls[k] \notin {"system.td_init", "timedomain.run", "VarOut.dump"}

\* ------------------------------------------------- claims on the Newton loop
\* C21: a failure of numeric/solve in a Newton iteration, singular matrix or
\* stale symbolic factorization alike, is answered by one new symbolic
\* factorization and one retry; the solve is given up (niter forced above
\* maxit, so that the step is rejected) only after the retry has failed too.
C21_FailureRetriedOnce ==
    newton.at # "none" =>
        /\ newton.attempts <= 2
        /\ newton.quit => newton.attempts = 2

\* C22: in every Newton iteration that computes a symbolic factorization the
\* constant Jacobian blocks were reseeded before it in the same iteration
\* (init_jac0, then the jac0 calls); and an iteration that started with
\* factorize set ends with it clear.
C22_ReseedBeforeFactorization ==
    newton.at # "none" =>
        /\ \A k \in DOMAIN newton.did :
              newton.did[k] = "symbolic" =>
                  k > 2 /\ newton.did[1] = "init_jac0" /\ newton.did[2] = "jac0"
        /\ (newton.at \in {"test", "rejected", "accepted"} /\ newton.started)
              => ~newton.factorize

\* ------------------------------------------------- claims on the population
\* a step of add or remove on model dev
AddStep(dev) == outcome'.op = "add" /\ outcome'.dev = dev /\ idx'[dev] # idx[dev]
RemoveStep(dev) == outcome'.op = "remove" /\ outcome'.dev = dev /\ n'[dev] < n[dev]

\* n, idx and int of a model describe one dense numbering of its elements
Dense(cnt, ids, map) ==
    /\ cnt = Len(ids)
    /\ DOMAIN map = Range(ids)
    /\ \A k \in DOMAIN ids : map[ids[k]] = k - 1
    /\ \A j, k \in DOMAIN ids : ids[j] = ids[k] => j = k

\* C23: after any sequence of add and remove on a model before addressing,
\* n is the number of elements and int maps the identifiers of idx one to
\* one onto 0..n-1 with int[idx[k]] = k; a removal moves every later element
\* down by one and keeps the order of the others.
C23_DenseInternalIndex ==
    [][\A dev \in LoadModels :
          /\ (AddStep(dev) \/ RemoveStep(dev))
                => Dense(n'[dev], idx'[dev], int'[dev])
          /\ RemoveStep(dev) =>
                \E k \in DOMAIN idx[dev] :
                   /\ idx'[dev] = RemoveAt(idx[dev], k)
                   /\ \A x \in DOMAIN int'[dev] :
                         int'[dev][x] = IF int[dev][x] > k - 1
                                        THEN int[dev][x] - 1
                                        ELSE int[dev][x]]_vars

\* C30: an identifier that DevMan.register_element assigns by itself
\* (idx = None) is never one the group already holds, so that no entry of
\* the group is overwritten.
C30_AutomaticIdIsFresh ==
    [][\A dev \in LoadModels :
          AddAs(dev, None) =>
             LET g == _group[dev]
                 id == idx'[dev][Len(idx'[dev])]
             IN  /\ id \notin DOMAIN group[g]
                 /\ \A x \in DOMAIN group[g] : group'[g][x] = group[g][x]]_vars

\* C26: for every set of registered names DevMan.sort_device completes and
\* leaves in devices the same names, each once, with Bus at position 0,
\* Node at position 1 and Ground at position 2 whenever they are registered.
C26_SortDeviceAnchors ==
    [][pc'.at = "sorted" =>
          /\ outcome'.result = "return"
          /\ Range(devices') = Range(devices)
          /\ Len(devices') = Len(devices)
          /\ "Bus" \in Range(devices) => devices'[1] = "Bus"
          /\ "Node" \in Range(devices)
                => Len(devices') >= 2 /\ devices'[2] = "Node"
          /\ "Ground" \in Range(devices)
                => Len(devices') >= 3 /\ devices'[3] = "Ground"]_vars

\* C27: in a run that reaches tf, Fault.checktime is called exactly once
\* with every event time te, t0 < te < tf: also when te is the end of a
\* trial step that was not shortened, and when a step aligned to te was
\* rejected and tried again.
C27_EventCheckedOnce ==
    (td.at = "return" /\ td.t = TDS.tf) =>
        \A te \in Range(td.times) :
            (TDS.t0 < te /\ te < TDS.tf) =>
                Cardinality({k \in DOMAIN td.checked : td.checked[k] = te}) = 1

\* C28: every accepted step strictly increases t, t never exceeds tf, and
\* the end time of every trial step lies in (t, tf].
C28_TimeAdvancesWithinHorizon ==
    [][/\ AcceptStep => td'.t > td.t
       /\ TrialStep => (td.t < td'.actual_time /\ td'.actual_time <= TDS.tf)
       /\ td'.t <= TDS'.tf]_vars

C28_Witness ==
    /\ td.at = "loop" /\ td.last = "accepted"
    /\ td.checked # <<>>
    /\ td.t = TDS.tf /\ td.step = 3

\* C29: the main loop of the run terminates, for every sequence of Newton
\* outcomes, every event list and every setting with t0 <= tf: the run
\* returns, with t = tf or with the step size driven to 0.
C29_RunTerminates ==
    <>(td.at = "return" /\ (td.t = TDS.tf \/ td.h = 0))

C29_Witness ==
    /\ td.at = "return" /\ td.t = TDS.tf
    /\ "DEBUG" \in td.log /\ td.checked # <<>>
    /\ td.step > 100 /\ ~TDS.fixt

====
